---- MODULE Spec2Model ----
(***************************************************************************)
(* The matchmaker batch job of donationswap (src/src/matchmaker.py):       *)
(* cleanup sweep, greedy pairing of eligible offers, persistence of the    *)
(* proposed matches with their "match suggested" mails, and the sweep that *)
(* sends the "deal" mail for doubly approved matches.                      *)
(*                                                                         *)
(* The storage (entities.Offer / entities.Match), the mail sender, the     *)
(* currency converter and the web server through which people create and   *)
(* confirm offers and answer to matches are not part of matchmaker.py;     *)
(* they are modelled from the specification and marked as such.            *)
(***************************************************************************)
EXTENDS Integers, Sequences, FiniteSets, Bags, TLC

\* ---------------------------------------------------------------- bounds
MaxOffers    == 2      \* offers ever posted
NumCharities == 2
NumCountries == 3
NumEmails    == 3
MaxRuns      == 3      \* batch runs ever started
NumProcs     == 2      \* batch processes that can exist at a time
MaxTicks     == 2      \* times the clock is advanced
MaxCandidates == 4     \* offers in the storage the matching alone is run on

\* ------------------------------------------------------ program constants
\* matchmaker.py:29-31, in days (the unit of `now` and of created_ts)
two_days   == 2
one_week   == 7
four_weeks == 28

Charities == 1..NumCharities
Countries == 1..NumCountries
Emails    == 1..NumEmails
Procs     == 1..NumProcs

\* The three values of Match.new_agrees / Match.old_agrees (a nullable boolean).
None  == "None"
True  == "True"
False == "False"

VARIABLES
    now,          \* the clock (datetime.utcnow(), in days)
    ticks,        \* how often the clock was advanced
    next_offer_id,\* the serial of the offers table
    offers,       \* stored Offer rows
    matches,      \* stored Match rows
    sent,         \* bag of the mails handed to mail.send
    next_secret,  \* source of donationswap.create_secret()
    runs,         \* batch runs started so far
    pc,           \* pc[r]: where batch run r is
    dry_run,      \* dry_run[r]: Matchmaker._dry_run of run r
    loaded,       \* loaded[r]: the Match entities in the memory of run r
    found,        \* found[r]: `matches` of main(), the pairs find_matches returned
    approved,     \* approved[r]: approved_matches of process_approved_matches
    idx,          \* idx[r]: position of the running for loop in its list
    match_secret, \* match_secret[r]: the local of process_found_matches
    error         \* error[r]: the exception run r died of, or "none"

vars == <<now, ticks, next_offer_id, offers, matches, sent, next_secret, runs, pc,
          dry_run, loaded, found, approved, idx, match_secret, error>>

\* ---------------------------------------------------------------- helpers
\* All orderings of a finite set, as sequences.
RECURSIVE Orderings(_)
Orderings(S) ==
    IF S = {} THEN {<<>>}
    ELSE UNION {{<<x>> \o t : t \in Orderings(S \ {x})} : x \in S}

Range(s) == {s[i] : i \in 1..Len(s)}

\* (variant: the found partner stays in the working list)
Remove_keeps(s, x) == s

\* list.remove(x): drops the first element equal to x.
RECURSIVE Remove(_, _)
Remove(s, x) ==
    IF s = <<>> THEN <<>>
    ELSE IF Head(s) = x THEN Tail(s)
    ELSE <<Head(s)>> \o Remove(Tail(s), x)

OfferIds(m)   == {m.old_offer_id, m.new_offer_id}
OfferById(id) == CHOOSE o \in offers : o.id = id
old_offer(m)  == OfferById(m.old_offer_id)
new_offer(m)  == OfferById(m.new_offer_id)

\* ------------------------------------------------------- expiry predicates
\* (variant: the age alone decides)
OfferExpired_any(x, t) == x.created_ts + two_days < t

\* (variant: expired at 48 hours sharp)
OfferExpired_at(x, t) == ~x.confirmed /\ x.created_ts + two_days <= t

\* clean(), line 36
OfferExpired(x, t) == ~x.confirmed /\ x.created_ts + two_days < t

\* clean(), line 40
MatchDeclined(x) == x.new_agrees = False \/ x.old_agrees = False

\* (variant: either flag undecided, and a week old)
MatchUnapproved_either(x, t) ==
    (x.new_agrees = None \/ x.old_agrees = None) /\ x.created_ts + one_week < t

\* clean(), line 44: Python reads `a or b and c` as `a or (b and c)`
MatchUnapproved(x, t) ==
    x.new_agrees = None \/ (x.old_agrees = None /\ x.created_ts + one_week < t)

\* (variant: an approved match expires like an unanswered one)
MatchApprovedExpired_week(x, t) ==
    x.new_agrees = True /\ x.old_agrees = True /\ x.created_ts + one_week < t

\* clean(), line 48
MatchApprovedExpired(x, t) ==
    x.new_agrees = True /\ x.old_agrees = True /\ x.created_ts + four_weeks < t

\* clean(), lines 35-37
CleanOffers(os, t) == {o \in os : ~OfferExpired(o, t)}

\* clean(), lines 39-49: three deletion loops one after the other
CleanMatches(ms, t) ==
    LET m1 == {m \in ms : ~MatchDeclined(m)}
        m2 == {m \in m1 : ~MatchUnapproved(m, t)}
        m3 == {m \in m2 : ~MatchApprovedExpired(m, t)}
    IN  m3

\* ------------------------------------------------------------ the matching
\* A rule that lets one owner swap with themselves.
_is_good_match_same_owner(offer1, offer2) ==
    IF offer1.charity_id = offer2.charity_id THEN FALSE
    ELSE IF offer1.country_id = offer2.country_id THEN FALSE
    ELSE TRUE

\* _is_good_match, lines 55-71
_is_good_match(offer1, offer2) ==
    IF offer1.charity_id = offer2.charity_id THEN FALSE
    ELSE IF offer1.country_id = offer2.country_id THEN FALSE
    ELSE IF offer1.email = offer2.email THEN FALSE
    ELSE TRUE

\* (variant: the scan looks at the first offer of the list and no further)
FirstGoodMatch_head(offer1, os, i) ==
    IF i > Len(os) THEN 0
    ELSE IF _is_good_match(offer1, os[i]) THEN i
    ELSE 0

\* (variant: the scan keeps the last good match it meets)
RECURSIVE FirstGoodMatch_last(_, _, _)
FirstGoodMatch_last(offer1, os, i) ==
    IF i > Len(os) THEN 0
    ELSE LET later == FirstGoodMatch_last(offer1, os, i + 1)
         IN  IF later # 0 THEN later
             ELSE IF _is_good_match(offer1, os[i]) THEN i
             ELSE 0

\* for offer2 in offers: ... break (lines 85-89): the index of the first good
\* match of offer1 in the list, 0 when the loop falls through.
RECURSIVE FirstGoodMatch(_, _, _)
FirstGoodMatch(offer1, os, i) ==
    IF i > Len(os) THEN 0
    ELSE IF _is_good_match(offer1, os[i]) THEN i
    ELSE FirstGoodMatch(offer1, os, i + 1)

\* while offers: ... (lines 83-89)
RECURSIVE MatchLoop(_, _)
MatchLoop(os, ms) ==
    IF os = <<>> THEN ms
    ELSE LET offer1 == os[Len(os)]
             rest   == SubSeq(os, 1, Len(os) - 1)
             k      == FirstGoodMatch(offer1, rest, 1)
         IN  IF k = 0 THEN MatchLoop(rest, ms)
             ELSE MatchLoop(Remove(rest, rest[k]), Append(ms, <<offer1, rest[k]>>))

\* find_matches applied to the list get_match_candidates returned
find_matches(candidates) == MatchLoop(candidates, <<>>)

\* (variant: offers of stored matches stay candidates)
Eligible_matched(o) == o.confirmed /\ ~OfferExpired(o, now)

\* entities.Offer.get_match_candidates: the confirmed, unexpired offers that
\* no stored match refers to, in an order the storage chooses.
Eligible(o) ==
    /\ o.confirmed
    /\ ~OfferExpired(o, now)
    /\ \A m \in matches : o.id \notin OfferIds(m)

get_match_candidates == Orderings({o \in offers : Eligible(o)})

\* ------------------------------------------------------------------- mails
\* (variant: the suggestion names the other party's address)
MatchMail_leaks(my_offer, their_offer, secret) ==
    [kind |-> "suggested", to |-> {my_offer.email},
     body_emails |-> {their_offer.email},
     match_secret |-> secret, offers |-> <<my_offer.id, their_offer.id>>]

\* _send_mail_about_match, lines 101-122: one receiver, no address in the body.
MatchMail(my_offer, their_offer, secret) ==
    [kind |-> "suggested", to |-> {my_offer.email}, body_emails |-> {},
     match_secret |-> secret, offers |-> <<my_offer.id, their_offer.id>>]

\* _send_mail_about_deal, lines 166-189. match_secret names the Match the mail
\* was sent for; it is not part of the text.
DealMail(old, new, secret) ==
    [kind |-> "deal", to |-> {old.email, new.email},
     body_emails |-> {old.email, new.email},
     match_secret |-> secret, offers |-> <<old.id, new.id>>]

Send(mail) == sent (+) SetToBag({mail})

\* (variant: the comparison turned around)
OldNew_swapped(offer1, offer2) ==
    IF offer1.created_ts > offer2.created_ts
    THEN [old |-> offer1, new |-> offer2]
    ELSE [old |-> offer2, new |-> offer1]

\* lines 132-135
OldNew(offer1, offer2) ==
    IF offer1.created_ts < offer2.created_ts
    THEN [old |-> offer1, new |-> offer2]
    ELSE [old |-> offer2, new |-> offer1]

\* entities.Match.create(db, secret, new_offer_id, old_offer_id)
NewMatch(secret, new_id, old_id) ==
    [secret |-> secret, new_offer_id |-> new_id, old_offer_id |-> old_id,
     new_agrees |-> None, old_agrees |-> None, created_ts |-> now]

\* (variants: a mail before the row, the row deleted before the mail, the
\* row not deleted)
ProposeOrder_mailfirst == <<"mail_old", "create", "mail_new">>
FinalizeOrder_deletefirst == <<"delete", "mail_deal">>
FinalizeOrder_nodelete == <<"mail_deal">>

\* The statements of one iteration of process_found_matches after
\* create_secret, in program order (lines 139, 141, 142) ...
ProposeOrder == <<"create", "mail_old", "mail_new">>
\* ... and of one iteration of process_approved_matches (lines 198, 202).
FinalizeOrder == <<"mail_deal", "delete">>

\* Where control goes after statement `step` of the loop body `order`:
\* the next statement, or the loop head `head`.
After(order, step, head) ==
    LET i == CHOOSE j \in 1..Len(order) : order[j] = step
    IN  IF i < Len(order) THEN order[i + 1] ELSE head

\* ------------------------------------------------------------------- Init
Init ==
    /\ now = 0
    /\ ticks = 0
    /\ next_offer_id = 1
    /\ offers = {}
    /\ matches = {}
    /\ sent = EmptyBag
    /\ next_secret = 1
    /\ runs = 0
    /\ pc = [r \in Procs |-> "idle"]
    /\ dry_run = [r \in Procs |-> FALSE]
    /\ loaded = [r \in Procs |-> {}]
    /\ found = [r \in Procs |-> <<>>]
    /\ approved = [r \in Procs |-> <<>>]
    /\ idx = [r \in Procs |-> 0]
    /\ match_secret = [r \in Procs |-> 0]
    /\ error = [r \in Procs |-> "none"]

runVars == <<pc, dry_run, loaded, found, approved, idx, match_secret, error>>

\* ------------------------------------------------- the world around the job
\* No batch process exists.
Quiet == \A r \in Procs : pc[r] = "idle"

\* Time passes: a day, a week or four weeks at once. A run takes no time on
\* this clock.
TickDays == {1, one_week, four_weeks}

Tick(d) ==
    /\ Quiet
    /\ ticks < MaxTicks
    /\ ticks' = ticks + 1
    /\ now' = now + d
    /\ UNCHANGED <<next_offer_id, offers, matches, sent, next_secret, runs, runVars>>

\* Charities, countries and addresses are names without structure: a stored
\* offer uses the names 1..n, and a new offer brings at most the next one.
Fresh(used) == 1 + Cardinality(used)

\* A visitor posts an offer; it starts unconfirmed. (A run sees an offer that
\* is posted or confirmed while it is under way as if that had happened
\* before the run or after it.)
CreateOffer(charity, country, email) ==
    /\ Quiet
    /\ charity <= Fresh({o.charity_id : o \in offers})
    /\ country <= Fresh({o.country_id : o \in offers})
    /\ email <= Fresh({o.email : o \in offers})
    /\ next_offer_id <= MaxOffers
    /\ next_offer_id' = next_offer_id + 1
    /\ offers' = offers \cup
          {[id |-> next_offer_id, charity_id |-> charity, country_id |-> country,
            email |-> email, confirmed |-> FALSE, created_ts |-> now]}
    /\ UNCHANGED <<now, ticks, matches, sent, next_secret, runs, runVars>>

\* The owner follows the confirmation link.
ConfirmOffer(o) ==
    /\ Quiet
    /\ ~o.confirmed
    /\ offers' = (offers \ {o}) \cup {[o EXCEPT !.confirmed = TRUE]}
    /\ UNCHANGED <<now, ticks, next_offer_id, matches, sent, next_secret, runs, runVars>>

\* The owner of offer `id` holds the link of match m: it came with the
\* "match suggested" mail.
HasLink(m, id) ==
    \E mail \in BagToSet(sent) :
        /\ mail.kind = "suggested"
        /\ mail.match_secret = m.secret
        /\ mail.offers[1] = id

\* A party answers to a suggested match, at any time, once.
RespondOld(m, answer) ==
    /\ m.old_agrees = None
    /\ HasLink(m, m.old_offer_id)
    /\ matches' = (matches \ {m}) \cup {[m EXCEPT !.old_agrees = answer]}
    /\ UNCHANGED <<now, ticks, next_offer_id, offers, sent, next_secret, runs, runVars>>

RespondNew(m, answer) ==
    /\ m.new_agrees = None
    /\ HasLink(m, m.new_offer_id)
    /\ matches' = (matches \ {m}) \cup {[m EXCEPT !.new_agrees = answer]}
    /\ UNCHANGED <<now, ticks, next_offer_id, offers, sent, next_secret, runs, runVars>>

\* ------------------------------------------------------------ the batch run
env == <<now, ticks, next_offer_id, runs>>

\* The rows of `ms` that are not the rows of the entities `gone`
\* (entity.delete(db) deletes the row of the entity's id).
Deleted(ms, gone) == {m \in ms : \A g \in gone : g.secret # m.secret}

\* A process that would read the matches from the storage at every call.
Match_get_all_stored(r) == matches

\* entities.Match.get_all (lines 40, 44, 48, 192) is called without a database
\* handle: it filters the matches in the memory of the process.
Match_get_all(r) == loaded[r]

\* main(), lines 204-211, started while no other batch process exists.
\* Matchmaker.__init__ loads the entities into the memory of the process
\* (lines 24-25); Match.get_all and Offer.get_all, which take no database
\* handle, read them there. The offers need no copy: no offer is posted or
\* confirmed while a run is under way.
StartRun(r, dry) ==
    /\ Quiet
    /\ runs < MaxRuns
    /\ runs' = runs + 1
    /\ pc' = [pc EXCEPT ![r] = "clean"]
    /\ dry_run' = [dry_run EXCEPT ![r] = dry]
    /\ loaded' = [loaded EXCEPT ![r] = matches]
    /\ UNCHANGED <<now, ticks, next_offer_id, offers, matches, sent, next_secret,
                   found, approved, idx, match_secret, error>>

\* main returns ("done") or an exception leaves it ("raised").
End(r, how, why) ==
    /\ pc' = [pc EXCEPT ![r] = how]
    /\ error' = [error EXCEPT ![r] = why]
    /\ UNCHANGED <<dry_run, loaded, found, approved, idx, match_secret>>

\* The process is gone, and its memory with it.
Exit(r) ==
    /\ pc[r] \in {"done", "raised"}
    /\ pc' = [pc EXCEPT ![r] = "idle"]
    /\ dry_run' = [dry_run EXCEPT ![r] = FALSE]
    /\ loaded' = [loaded EXCEPT ![r] = {}]
    /\ found' = [found EXCEPT ![r] = <<>>]
    /\ approved' = [approved EXCEPT ![r] = <<>>]
    /\ idx' = [idx EXCEPT ![r] = 0]
    /\ match_secret' = [match_secret EXCEPT ![r] = 0]
    /\ error' = [error EXCEPT ![r] = "none"]
    /\ UNCHANGED <<env, offers, matches, sent, next_secret>>

\* clean(), lines 27-49: no look at self._dry_run.
Clean(r) ==
    /\ pc[r] = "clean"
    /\ offers' = CleanOffers(offers, now)
    /\ loaded' = [loaded EXCEPT ![r] = CleanMatches(Match_get_all(r), now)]
    /\ matches' = Deleted(matches, Match_get_all(r) \ CleanMatches(Match_get_all(r), now))
    /\ pc' = [pc EXCEPT ![r] = "find"]
    /\ UNCHANGED <<env, sent, next_secret, dry_run, found, approved, idx,
                   match_secret, error>>

\* find_matches(), lines 81-93, on the list read in line 79
FindMatchesIn(r, candidates) ==
    /\ pc[r] = "find"
    /\ found' = [found EXCEPT ![r] = find_matches(candidates)]
    /\ idx' = [idx EXCEPT ![r] = 1]
    /\ pc' = [pc EXCEPT ![r] = "propose"]
    /\ UNCHANGED <<env, offers, matches, sent, next_secret, dry_run, loaded, approved,
                   match_secret, error>>

\* find_matches(), lines 73-93
FindMatches(r) == \E candidates \in get_match_candidates : FindMatchesIn(r, candidates)

\* process_found_matches, line 125 with no pair left: on to line 218
ProposeDone(r) ==
    /\ pc[r] = "propose"
    /\ idx[r] > Len(found[r])
    /\ pc' = [pc EXCEPT ![r] = "approved"]
    /\ UNCHANGED <<env, offers, matches, sent, next_secret, dry_run, loaded, found,
                   approved, idx, match_secret, error>>

\* lines 126-128
ProposeDryRun(r) ==
    /\ pc[r] = "propose"
    /\ idx[r] <= Len(found[r])
    /\ dry_run[r]
    /\ idx' = [idx EXCEPT ![r] = idx[r] + 1]
    /\ UNCHANGED <<env, offers, matches, sent, next_secret, pc, dry_run, loaded, found,
                   approved, match_secret, error>>

\* line 130
CreateSecret(r) ==
    /\ pc[r] = "propose"
    /\ idx[r] <= Len(found[r])
    /\ ~dry_run[r]
    /\ match_secret' = [match_secret EXCEPT ![r] = next_secret]
    /\ next_secret' = next_secret + 1
    /\ pc' = [pc EXCEPT ![r] = ProposeOrder[1]]
    /\ UNCHANGED <<env, offers, matches, sent, dry_run, loaded, found, approved, idx, error>>

\* The pair of the running iteration, labelled (lines 132-135).
Pair(r) == OldNew(found[r][idx[r]][1], found[r][idx[r]][2])

\* Control after a statement of the loop body of process_found_matches.
ProposeStep(r, step) ==
    LET next == After(ProposeOrder, step, "propose")
    IN  /\ pc' = [pc EXCEPT ![r] = next]
        /\ idx' = [idx EXCEPT ![r] = IF next = "propose" THEN idx[r] + 1 ELSE idx[r]]

\* lines 138-139
CreateMatch(r) ==
    /\ pc[r] = "create"
    /\ matches' = matches \cup
          {NewMatch(match_secret[r], Pair(r).new.id, Pair(r).old.id)}
    /\ loaded' = [loaded EXCEPT ![r] = loaded[r] \cup
          {NewMatch(match_secret[r], Pair(r).new.id, Pair(r).old.id)}]
    /\ ProposeStep(r, "create")
    /\ UNCHANGED <<env, offers, sent, next_secret, dry_run, found, approved,
                   match_secret, error>>

\* line 141
MailOld(r) ==
    /\ pc[r] = "mail_old"
    /\ sent' = Send(MatchMail(Pair(r).old, Pair(r).new, match_secret[r]))
    /\ ProposeStep(r, "mail_old")
    /\ UNCHANGED <<env, offers, matches, next_secret, dry_run, loaded, found, approved,
                   match_secret, error>>

\* line 142
MailNew(r) ==
    /\ pc[r] = "mail_new"
    /\ sent' = Send(MatchMail(Pair(r).new, Pair(r).old, match_secret[r]))
    /\ ProposeStep(r, "mail_new")
    /\ UNCHANGED <<env, offers, matches, next_secret, dry_run, loaded, found, approved,
                   match_secret, error>>

\* line 192: `x.new_agrees and x.old_agrees` is true of True alone
GetApproved(r) ==
    /\ pc[r] = "approved"
    /\ \E list \in Orderings({x \in Match_get_all(r) : x.new_agrees = True /\ x.old_agrees = True}) :
          approved' = [approved EXCEPT ![r] = list]
    /\ idx' = [idx EXCEPT ![r] = 1]
    /\ pc' = [pc EXCEPT ![r] = "finalize"]
    /\ UNCHANGED <<env, offers, matches, sent, next_secret, dry_run, loaded, found,
                   match_secret, error>>

\* line 193 with no match left: main returns
FinalizeDone(r) ==
    /\ pc[r] = "finalize"
    /\ idx[r] > Len(approved[r])
    /\ End(r, "done", "none")
    /\ UNCHANGED <<env, offers, matches, sent, next_secret>>

\* lines 194-196
FinalizeDryRun(r) ==
    /\ pc[r] = "finalize"
    /\ idx[r] <= Len(approved[r])
    /\ dry_run[r]
    /\ idx' = [idx EXCEPT ![r] = idx[r] + 1]
    /\ UNCHANGED <<env, offers, matches, sent, next_secret, pc, dry_run, loaded, found,
                   approved, match_secret, error>>

FinalizeEnter(r) ==
    /\ pc[r] = "finalize"
    /\ idx[r] <= Len(approved[r])
    /\ ~dry_run[r]
    /\ pc' = [pc EXCEPT ![r] = FinalizeOrder[1]]
    /\ UNCHANGED <<env, offers, matches, sent, next_secret, dry_run, loaded, found,
                   approved, idx, match_secret, error>>

Match(r) == approved[r][idx[r]]

FinalizeStep(r, step) ==
    LET next == After(FinalizeOrder, step, "finalize")
    IN  /\ pc' = [pc EXCEPT ![r] = next]
        /\ idx' = [idx EXCEPT ![r] = IF next = "finalize" THEN idx[r] + 1 ELSE idx[r]]

\* line 198
MailDeal(r) ==
    /\ pc[r] = "mail_deal"
    /\ sent' = Send(DealMail(old_offer(Match(r)), new_offer(Match(r)), Match(r).secret))
    /\ FinalizeStep(r, "mail_deal")
    /\ UNCHANGED <<env, offers, matches, next_secret, dry_run, loaded, found, approved,
                   match_secret, error>>

\* lines 201-202: the row of this match goes
DeleteMatch(r) ==
    /\ pc[r] = "delete"
    /\ matches' = Deleted(matches, {Match(r)})
    /\ loaded' = [loaded EXCEPT ![r] = Deleted(loaded[r], {Match(r)})]
    /\ FinalizeStep(r, "delete")
    /\ UNCHANGED <<env, offers, sent, next_secret, dry_run, found, approved,
                   match_secret, error>>

\* Nothing in matchmaker.py catches an exception: a statement that raises ends
\* the run. The storage raises in create and delete, the currency converter
\* and the mail sender raise while a mail is built and sent.
Raise(r, why) ==
    /\ \/ pc[r] \in {"create", "delete"} /\ why = "storage"
       \/ pc[r] \in {"mail_old", "mail_new", "mail_deal"} /\ why \in {"currency", "mail"}
    /\ End(r, "raised", why)
    /\ UNCHANGED <<env, offers, matches, sent, next_secret>>

World ==
    \/ \E d \in TickDays : Tick(d)
    \/ \E c \in Charities, k \in Countries, e \in Emails : CreateOffer(c, k, e)
    \/ \E o \in offers : ConfirmOffer(o)
    \/ \E m \in matches, a \in {True, False} : RespondOld(m, a)
    \/ \E m \in matches, a \in {True, False} : RespondNew(m, a)

Run(r) ==
    \/ Clean(r)
    \/ FindMatches(r)
    \/ ProposeDone(r)
    \/ ProposeDryRun(r)
    \/ CreateSecret(r)
    \/ CreateMatch(r)
    \/ MailOld(r)
    \/ MailNew(r)
    \/ GetApproved(r)
    \/ FinalizeDone(r)
    \/ FinalizeDryRun(r)
    \/ FinalizeEnter(r)
    \/ MailDeal(r)
    \/ DeleteMatch(r)
    \/ \E why \in {"storage", "currency", "mail"} : Raise(r, why)
    \/ Exit(r)

\* Runs follow one another: cron starts the next one in a new process.
Next ==
    \/ World
    \/ \E dry \in BOOLEAN : StartRun(1, dry)
    \/ \E r \in Procs : Run(r)

Spec == Init /\ [][Next]_vars

\* ----------------------------------------------------- runs without failure
\* The same, with a storage, a converter and a mail sender that never raise.
RunNoFail(r) ==
    \/ Clean(r)
    \/ FindMatches(r)
    \/ ProposeDone(r)
    \/ ProposeDryRun(r)
    \/ CreateSecret(r)
    \/ CreateMatch(r)
    \/ MailOld(r)
    \/ MailNew(r)
    \/ GetApproved(r)
    \/ FinalizeDone(r)
    \/ FinalizeDryRun(r)
    \/ FinalizeEnter(r)
    \/ MailDeal(r)
    \/ DeleteMatch(r)
    \/ Exit(r)

NextNoFail ==
    \/ World
    \/ \E dry \in BOOLEAN : StartRun(1, dry)
    \/ \E r \in Procs : RunNoFail(r)

SpecNoFail == Init /\ [][NextNoFail]_vars

\* ----------------------------------------------------------- runs overlap
\* Nothing in main() or in Matchmaker.__init__ looks for another batch
\* process: cron, or an operator, can start one while one is under way.
StartOverlap(r, dry) ==
    /\ ~Quiet
    /\ pc[r] = "idle"
    /\ runs < MaxRuns
    /\ runs' = runs + 1
    /\ pc' = [pc EXCEPT ![r] = "clean"]
    /\ dry_run' = [dry_run EXCEPT ![r] = dry]
    /\ loaded' = [loaded EXCEPT ![r] = matches]
    /\ UNCHANGED <<now, ticks, next_offer_id, offers, matches, sent, next_secret,
                   found, approved, idx, match_secret, error>>

NextOverlap ==
    \/ World
    \/ \E dry \in BOOLEAN : StartRun(1, dry)
    \/ \E r \in Procs, dry \in BOOLEAN : StartOverlap(r, dry)
    \/ \E r \in Procs : RunNoFail(r)

\* A first run has come and gone over the empty storage.
InitOverlap ==
    /\ now = 0
    /\ ticks = 0
    /\ next_offer_id = 1
    /\ offers = {}
    /\ matches = {}
    /\ sent = EmptyBag
    /\ next_secret = 1
    /\ runs = 1
    /\ pc = [r \in Procs |-> "idle"]
    /\ dry_run = [r \in Procs |-> FALSE]
    /\ loaded = [r \in Procs |-> {}]
    /\ found = [r \in Procs |-> <<>>]
    /\ approved = [r \in Procs |-> <<>>]
    /\ idx = [r \in Procs |-> 0]
    /\ match_secret = [r \in Procs |-> 0]
    /\ error = [r \in Procs |-> "none"]

SpecOverlap == InitOverlap /\ [][NextOverlap]_vars

\* ------------------------------------------------------ the matching alone
\* find_matches on any list of up to MaxCandidates offers. Nothing in
\* find_matches looks at an id or at what a charity, a country or an address
\* is called, so every list is, up to these names, a storage whose rows are
\* read in the order of their ids and in which each row uses the names so far
\* or the next one.

\* A process that has cleaned and is about to match.
InitMatch ==
    /\ now = 0
    /\ ticks = 0
    /\ next_offer_id = 1
    /\ offers = {}
    /\ matches = {}
    /\ sent = EmptyBag
    /\ next_secret = 1
    /\ runs = 1
    /\ pc = [r \in Procs |-> IF r = 1 THEN "find" ELSE "idle"]
    /\ dry_run = [r \in Procs |-> FALSE]
    /\ loaded = [r \in Procs |-> {}]
    /\ found = [r \in Procs |-> <<>>]
    /\ approved = [r \in Procs |-> <<>>]
    /\ idx = [r \in Procs |-> 0]
    /\ match_secret = [r \in Procs |-> 0]
    /\ error = [r \in Procs |-> "none"]

\* One more confirmed offer is in the storage the process will read.
AddCandidate(charity, country, email) ==
    /\ \A r \in Procs : pc[r] \in {"idle", "find"}
    /\ next_offer_id <= MaxCandidates
    /\ charity <= Fresh({o.charity_id : o \in offers})
    /\ country <= Fresh({o.country_id : o \in offers})
    /\ email <= Fresh({o.email : o \in offers})
    /\ next_offer_id' = next_offer_id + 1
    /\ offers' = offers \cup
          {[id |-> next_offer_id, charity_id |-> charity, country_id |-> country,
            email |-> email, confirmed |-> TRUE, created_ts |-> now]}
    /\ UNCHANGED <<now, ticks, matches, sent, next_secret, runs, runVars>>

\* The rows in the order of their ids.
ById == CHOOSE l \in [1..Cardinality(offers) -> offers] :
            \A i \in 1..Cardinality(offers) : l[i].id = i

NextMatch ==
    \/ \E c \in Charities, k \in Countries, e \in Emails : AddCandidate(c, k, e)
    \/ \E r \in Procs : FindMatchesIn(r, ById)

SpecMatch == InitMatch /\ [][NextMatch]_vars

\* ================================================================== claims
Steps(r) == pc'[r] # pc[r] \/ idx'[r] # idx[r]     \* run r takes this step
Mails == BagToSet(sent)
Added(mail) == CopiesIn(mail, sent') > CopiesIn(mail, sent)
Different(a, b) ==
    a.charity_id # b.charity_id /\ a.country_id # b.country_id /\ a.email # b.email

\* C1: every pair find_matches returns has offers of different charity,
\* different country and different owner address, no offer is paired with
\* itself, and no offer is in two pairs.
C1_PairsCompatibleDisjoint ==
    \A r \in Procs :
        \A i \in 1..Len(found[r]) :
            /\ Different(found[r][i][1], found[r][i][2])
            /\ found[r][i][1].id # found[r][i][2].id
            /\ \A j \in 1..Len(found[r]) :
                  i # j => {found[r][i][1].id, found[r][i][2].id}
                             \cap {found[r][j][1].id, found[r][j][2].id} = {}

\* find_matches returned two pairs.
C1_Witness == \E r \in Procs : Len(found[r]) = 2

\* C2: no step of a dry run changes the stored offers, the stored matches or
\* the mails sent.
C2_DryRunChangesNothing ==
    [][\A r \in Procs :
          (dry_run[r] /\ Steps(r)) => UNCHANGED <<offers, matches, sent>>]_vars

\* C3: no "match suggested" mail goes to or names the address of the other
\* party, and a "deal" mail is sent only for a stored match that both
\* parties have approved at that moment.
C3_SuggestionKeepsAddress ==
    \A mail \in Mails :
        mail.kind = "suggested" =>
            OfferById(mail.offers[2]).email \notin mail.to \cup mail.body_emails

C3_DealOnlyWhenBothAgree ==
    \A mail \in BagToSet(sent') :
        (mail.kind = "deal" /\ Added(mail)) =>
            \E m \in matches :
                /\ m.secret = mail.match_secret
                /\ m.old_agrees = True /\ m.new_agrees = True
                /\ <<m.old_offer_id, m.new_offer_id>> = mail.offers

C3_AddressOnlyInDeal ==
    []C3_SuggestionKeepsAddress /\ [][C3_DealOnlyWhenBothAgree]_vars

\* Both suggestions and the deal mail of one match have been sent.
C3_Witness ==
    \E d \in Mails, s1 \in Mails, s2 \in Mails :
        /\ d.kind = "deal" /\ s1.kind = "suggested" /\ s2.kind = "suggested"
        /\ s1.match_secret = d.match_secret /\ s2.match_secret = d.match_secret
        /\ s1.to # s2.to

\* C4: the cleanup sweep keeps every match without a declined flag and with
\* an undecided flag that is not older than one week.
C4_StaleOnlyAfterOneWeek ==
    [][\A r \in Procs :
          (pc[r] = "clean" /\ pc'[r] # "clean") =>
              \A m \in matches :
                  ( /\ m.old_agrees # False /\ m.new_agrees # False
                    /\ (m.old_agrees = None \/ m.new_agrees = None)
                    /\ m.created_ts + one_week >= now ) => m \in matches']_vars

\* C5: in a committing run, creating the match of a pair adds one row with
\* both flags undecided whose old offer is not the later created one; when the
\* pairs are through, each has one stored match and two suggestions of this
\* match, one to each owner; the old and new offer of a match never change.
Processed(r) ==
    IF dry_run[r] THEN {}
    ELSE IF pc[r] = "approved" THEN 1..Len(found[r])
    ELSE IF pc[r] \in {"propose", "create", "mail_old", "mail_new"} THEN 1..(idx[r] - 1)
    ELSE {}

C5_PairProposed(a, b) ==
    LET ms == {m \in matches : OfferIds(m) = {a.id, b.id}}
    IN  /\ Cardinality(ms) = 1
        /\ \A m \in ms :
              LET sug == {mail \in Mails : mail.kind = "suggested"
                                            /\ mail.match_secret = m.secret}
              IN  /\ old_offer(m).created_ts <= new_offer(m).created_ts
                  /\ Cardinality(sug) = 2
                  /\ \A mail \in sug : CopiesIn(mail, sent) = 1
                  /\ {mail.to : mail \in sug} = {{a.email}, {b.email}}

C5_ProposeDone ==
    \A r \in Procs : \A k \in Processed(r) :
        C5_PairProposed(found[r][k][1], found[r][k][2])

C5_CreateStep ==
    \A r \in Procs :
        (pc[r] = "create" /\ pc'[r] \notin {"create", "raised"}) =>
            \E m \in matches' :
                /\ m \notin matches
                /\ matches' = matches \cup {m}
                /\ OfferIds(m) = {found[r][idx[r]][1].id, found[r][idx[r]][2].id}
                /\ m.old_offer_id # m.new_offer_id
                /\ old_offer(m).created_ts <= new_offer(m).created_ts
                /\ m.old_agrees = None /\ m.new_agrees = None

C5_LabelFixed ==
    \A m \in matches : \A n \in matches' :
        m.secret = n.secret =>
            m.old_offer_id = n.old_offer_id /\ m.new_offer_id = n.new_offer_id

C5_Propose ==
    []C5_ProposeDone /\ [][C5_CreateStep /\ C5_LabelFixed]_vars

\* A committing run is through its one pair of offers posted on different
\* days, and a party has answered already.
C5_Witness ==
    \E r \in Procs :
        /\ pc[r] = "approved" /\ ~dry_run[r] /\ Len(found[r]) = 1
        /\ found[r][1][1].created_ts > found[r][1][2].created_ts
        /\ \E m \in matches : m.old_agrees # None

\* C6: whenever a "match suggested" mail is sent, the match whose secret it
\* carries is in the storage.
C6_MatchBeforeMail ==
    [][\A mail \in BagToSet(sent') :
          (mail.kind = "suggested" /\ Added(mail)) =>
              \E m \in matches : m.secret = mail.match_secret]_vars

\* The first suggestion of a match is out, the second not yet.
C6_Witness ==
    \E r \in Procs :
        /\ pc[r] = "mail_new"
        /\ \E mail \in Mails : mail.kind = "suggested"
                                  /\ mail.match_secret = match_secret[r]

\* C7: when the finalize sweep is about to delete a match (the deletion may
\* succeed or fail), the deal mail of this match, to both owners, has been
\* sent; sending it is one mail; the sweep takes every doubly approved match.
C7_SentAtDelete ==
    \A r \in Procs :
        pc[r] = "delete" =>
            \E mail \in Mails :
                /\ mail.kind = "deal"
                /\ mail.match_secret = Match(r).secret
                /\ mail.to = {old_offer(Match(r)).email, new_offer(Match(r)).email}

C7_FinalizeSteps ==
    \A r \in Procs :
        /\ (pc[r] = "mail_deal" /\ pc'[r] \notin {"mail_deal", "raised"}) =>
              BagCardinality(sent') = BagCardinality(sent) + 1
        /\ (pc[r] = "approved" /\ pc'[r] = "finalize") =>
              Range(approved'[r]) =
                  {m \in loaded[r] : m.old_agrees = True /\ m.new_agrees = True}
        /\ (pc[r] = "delete" /\ pc'[r] \notin {"delete", "raised"}) =>
              \A m \in matches' : m.secret # Match(r).secret

C7_SendThenDelete == []C7_SentAtDelete /\ [][C7_FinalizeSteps]_vars

\* The deletion of a match in the finalize sweep has failed.
C7_Witness ==
    \E r \in Procs :
        /\ pc[r] = "raised" /\ error[r] = "storage" /\ approved[r] # <<>>
        /\ \E mail \in Mails : mail.kind = "deal"

\* C8: with no failure, no deal mail is sent twice.
C8_DealOnce ==
    \A mail \in Mails : mail.kind = "deal" => CopiesIn(mail, sent) = 1

\* A committing run has ended whose finalize sweep found no approved match,
\* after an earlier run had sent a deal mail.
C8_Witness ==
    \E r \in Procs :
        /\ pc[r] = "done" /\ ~dry_run[r] /\ approved[r] = <<>>
        /\ \E mail \in Mails : mail.kind = "deal"

\* C9: no offer is referred to by two stored matches.
C9_OneMatchPerOffer ==
    \A m \in matches : \A n \in matches :
        m # n => OfferIds(m) \cap OfferIds(n) = {}

\* A committing run has read the candidates while a match is stored, and the
\* offers of this match are not among them.
C9_Witness ==
    \E r \in Procs :
        /\ pc[r] = "propose" /\ ~dry_run[r] /\ found[r] = <<>>
        /\ \E m \in matches : \A id \in OfferIds(m) : \E o \in offers : o.id = id

\* C10: both offers of every stored match are stored.
C10_MatchOffersExist ==
    \A m \in matches : \A id \in OfferIds(m) : \E o \in offers : o.id = id

\* The cleanup sweep has run over a match whose offers are older than 48
\* hours.
C10_Witness ==
    \E r \in Procs :
        /\ pc[r] = "find"
        /\ \E m \in matches :
              \A id \in OfferIds(m) :
                  \E o \in offers : o.id = id /\ o.created_ts + two_days < now

\* C11: the steps of a run go through cleanup, matching, proposing and the
\* finalize sweep in this order, none left out and none gone back to, and a
\* run never has in its finalize sweep a match that it created itself.
Phase(p) ==
    CASE p = "idle" -> 0
      [] p = "clean" -> 1
      [] p = "find" -> 2
      [] p \in {"propose", "create", "mail_old", "mail_new"} -> 3
      [] p \in {"approved", "finalize", "mail_deal", "delete"} -> 4
      [] p \in {"done", "raised"} -> 5

CreatedBy(r, m) ==
    \E k \in 1..Len(found[r]) : OfferIds(m) = {found[r][k][1].id, found[r][k][2].id}

C11_PhaseOrder ==
    \A r \in Procs :
        \/ Phase(pc'[r]) = Phase(pc[r])
        \/ Phase(pc'[r]) = Phase(pc[r]) + 1 /\ pc'[r] # "raised"
        \/ pc'[r] = "raised" /\ Phase(pc[r]) \in {3, 4}
        \/ pc'[r] = "idle" /\ Phase(pc[r]) = 5

C11_NotFinalizedByCreator ==
    \A r \in Procs :
        /\ \A k \in 1..Len(approved[r]) : ~CreatedBy(r, approved[r][k])
        /\ pc[r] \in {"mail_deal", "delete"} => ~CreatedBy(r, Match(r))

C11_PhasesInOrder == []C11_NotFinalizedByCreator /\ [][C11_PhaseOrder]_vars

\* A run is through its finalize sweep, and both parties of a match that it
\* created have approved in the meantime: the match is still stored.
C11_Witness ==
    \E r \in Procs :
        /\ pc[r] = "done" /\ ~dry_run[r]
        /\ \E m \in matches :
              CreatedBy(r, m) /\ m.old_agrees = True /\ m.new_agrees = True

\* C12: a currency conversion that fails while a mail is built does not end
\* the run: the run is still in its proposing or finalizing phase after the
\* failure and goes on with what is left.
C12_CurrencyFailureLosesOneMail ==
    [][\A r \in Procs :
          (error[r] = "none" /\ error'[r] = "currency") =>
              Phase(pc'[r]) \in {3, 4}]_vars

\* C13: a mail that fails in the proposing phase leaves the match that was
\* just stored as it is, and the cleanup of the next run keeps this match,
\* still undecided on both sides and not a week old, in the storage.
Suggestions(m) ==
    {mail \in Mails : mail.kind = "suggested" /\ mail.match_secret = m.secret}

C13_KeptAtFailure ==
    \A r \in Procs :
        (pc[r] \in {"mail_old", "mail_new"} /\ pc'[r] = "raised") =>
            /\ matches' = matches
            /\ \E m \in matches : m.secret = match_secret[r]

C13_KeptByNextCleanup ==
    \A r \in Procs :
        (pc[r] = "clean" /\ pc'[r] = "find") =>
            \A m \in matches :
                ( /\ Cardinality(Suggestions(m)) < 2
                  /\ m.old_agrees = None /\ m.new_agrees = None
                  /\ m.created_ts + one_week >= now ) => m \in matches'

C13_FailedMailMatchResurfaces ==
    [][C13_KeptAtFailure /\ C13_KeptByNextCleanup]_vars

\* C14: for any two offers, _is_good_match gives the same answer in both
\* orders, and the answer is no exactly when the two have the same charity,
\* the same country or the same owner address.
C14_GoodMatchSymmetric ==
    \A a \in offers : \A b \in offers :
        /\ _is_good_match(a, b) = _is_good_match(b, a)
        /\ _is_good_match(a, b) = FALSE <=>
              \/ a.charity_id = b.charity_id
              \/ a.country_id = b.country_id
              \/ a.email = b.email

\* The matching has run over offers among which two have the charity alone
\* in common, two the country alone, two the address alone, and two nothing.
C14_Witness ==
    /\ \E r \in Procs : pc[r] = "propose"
    /\ \E a \in offers : \E b \in offers :
          a.charity_id = b.charity_id /\ a.country_id # b.country_id /\ a.email # b.email
    /\ \E a \in offers : \E b \in offers :
          a.charity_id # b.charity_id /\ a.country_id = b.country_id /\ a.email # b.email
    /\ \E a \in offers : \E b \in offers :
          a.charity_id # b.charity_id /\ a.country_id # b.country_id /\ a.email = b.email
    /\ \E a \in offers : \E b \in offers : Different(a, b)

\* C15: of the matches a run holds with no declined flag, its cleanup
\* deletes as stale those whose new_agrees is undecided, whatever their age,
\* and those whose old_agrees is undecided and that are more than one week
\* old, and no other: a match whose old side alone is undecided is kept at
\* one week and deleted after one week.
Stored(ms, m) == \E n \in ms : n.secret = m.secret

C15_Stale(m) ==
    \/ m.new_agrees = None
    \/ m.old_agrees = None /\ m.created_ts + one_week < now

C15_CleanStep ==
    \A r \in Procs :
        (pc[r] = "clean" /\ pc'[r] = "find") =>
            \A m \in loaded[r] :
                (m.new_agrees # False /\ m.old_agrees # False) =>
                    /\ C15_Stale(m) => ~Stored(matches', m) /\ m \notin loaded'[r]
                    /\ (~C15_Stale(m) /\ m.created_ts + four_weeks >= now) =>
                          Stored(matches', m) /\ m \in loaded'[r]

C16_CleanStep ==
    \A r \in Procs :
        (pc[r] = "clean" /\ pc'[r] = "find") =>
            \A o \in offers :
                o \notin offers' <=> (~o.confirmed /\ o.created_ts + two_days < now)

C16_RunStep ==
    \A r \in Procs :
        Steps(r) =>
            /\ \A o \in offers : o.confirmed => o \in offers'
            /\ pc[r] # "clean" => offers' = offers

C16_OfferExpiry == [][C16_CleanStep /\ C16_RunStep]_vars

\* The cleanup has kept an unconfirmed offer that is 48 hours old.
C16_Witness ==
    \E r \in Procs :
        /\ pc[r] = "find"
        /\ \E o \in offers : ~o.confirmed /\ o.created_ts + two_days = now

\* C17: in a committing run in which nothing fails, the cleanup deletes a
\* match that both parties have approved exactly when it is more than four
\* weeks old, and sends nothing; the approved matches it keeps are the ones
\* the finalize sweep of this run takes up, and when the run is through each
\* of them has its deal mail and is gone.
Agreed(ms) == {m \in ms : m.old_agrees = True /\ m.new_agrees = True}

C17_CleanStep ==
    \A r \in Procs :
        (pc[r] = "clean" /\ pc'[r] = "find" /\ ~dry_run[r]) =>
            /\ sent' = sent
            /\ \A m \in Agreed(loaded[r]) :
                  IF m.created_ts + four_weeks < now
                  THEN ~Stored(matches', m) /\ m \notin loaded'[r]
                  ELSE Stored(matches', m) /\ m \in loaded'[r]

C17_UntilSweep ==
    \A r \in Procs :
        /\ (Phase(pc[r]) \in {2, 3} /\ Phase(pc'[r]) \in {3, 4}) =>
              Agreed(loaded'[r]) = Agreed(loaded[r])
        /\ (pc[r] = "approved" /\ pc'[r] = "finalize") =>
              /\ Range(approved'[r]) = Agreed(loaded[r])
              /\ \A m \in Agreed(loaded[r]) : m.created_ts + four_weeks >= now

C17_SweepDone ==
    \A r \in Procs :
        (pc[r] = "done" /\ ~dry_run[r]) =>
            \A k \in 1..Len(approved[r]) :
                /\ ~Stored(matches, approved[r][k])
                /\ \E mail \in Mails :
                      mail.kind = "deal" /\ mail.match_secret = approved[r][k].secret

C17_ApprovedExpiry == []C17_SweepDone /\ [][C17_CleanStep /\ C17_UntilSweep]_vars

\* A committing run is through whose cleanup kept an approved match of
\* exactly four weeks and whose sweep has sent its deal mail.
C17_Witness ==
    \E r \in Procs :
        /\ pc[r] = "done" /\ ~dry_run[r]
        /\ \E k \in 1..Len(approved[r]) :
              /\ approved[r][k].created_ts + four_weeks = now
              /\ \E mail \in Mails :
                    mail.kind = "deal" /\ mail.match_secret = approved[r][k].secret

\* C18: find_matches returns the greedy pairing of the list: the last offer
\* not yet dealt with is taken, paired with the earliest offer left that
\* differs from it in charity, country and owner, or dropped when there is
\* none, until no offer is left. On the list A (charity 1, country 1, owner
\* 1), B (charity 2, country 2, owner 2), C (charity 1, country 3, owner 3)
\* it returns one pair, B with C, never A with C, and A stays alone.
Max(S) == CHOOSE i \in S : \A j \in S : j <= i
Min(S) == CHOOSE i \in S : \A j \in S : i <= j

RECURSIVE Greedy(_, _)
Greedy(list, left) ==
    IF left = {} THEN <<>>
    ELSE LET i  == Max(left)
             js == {j \in left \ {i} : Different(list[i], list[j])}
         IN  IF js = {} THEN Greedy(list, left \ {i})
             ELSE <<<<list[i], list[Min(js)]>>>> \o Greedy(list, left \ {i, Min(js)})

Example ==
    {[id |-> 1, charity_id |-> 1, country_id |-> 1, email |-> 1,
      confirmed |-> TRUE, created_ts |-> 0],
     [id |-> 2, charity_id |-> 2, country_id |-> 2, email |-> 2,
      confirmed |-> TRUE, created_ts |-> 0],
     [id |-> 3, charity_id |-> 1, country_id |-> 3, email |-> 3,
      confirmed |-> TRUE, created_ts |-> 0]}

PairIds(p) == {p[1].id, p[2].id}

C18_GreedyPairing ==
    \A r \in Procs :
        pc[r] = "propose" =>
            /\ found[r] = Greedy(ById, 1..Len(ById))
            /\ offers = Example =>
                  /\ Len(found[r]) = 1
                  /\ PairIds(found[r][1]) \in {{1, 2}, {2, 3}}
                  /\ PairIds(found[r][1]) # {1, 3}

\* find_matches has run on the list A, B, C.
C18_Witness ==
    \E r \in Procs : pc[r] = "propose" /\ offers = Example /\ Len(found[r]) = 1

\* C19: when find_matches has returned, no two of the offers it left out of
\* its pairs differ in charity, country and owner: no pair could be added.
\* Every offer of a pair is one of the list, and the pairs are at most half
\* as many as the offers.
Unmatched(r) ==
    {o \in offers : \A k \in 1..Len(found[r]) : o.id \notin PairIds(found[r][k])}

C19_MaximalMatching ==
    \A r \in Procs :
        pc[r] = "propose" =>
            /\ \A a \in Unmatched(r) : \A b \in Unmatched(r) : ~Different(a, b)
            /\ \A k \in 1..Len(found[r]) : {found[r][k][1], found[r][k][2]} \subseteq offers
            /\ 2 * Len(found[r]) <= Cardinality(offers)

\* find_matches has returned a pair and left out two offers, which have
\* something in common.
C19_Witness ==
    \E r \in Procs :
        /\ pc[r] = "propose"
        /\ Len(found[r]) = 1
        /\ Cardinality(Unmatched(r)) = 2

\* C20: nothing keeps two runs from overlapping, and when they do, one offer
\* can come to be referred to by two stored matches, its owner holding two
\* suggestions. A run never proposes an offer that a stored match it knows
\* of refers to: the second match of an offer is always the work of a
\* process that read the candidates before the first was stored.
C20_CreateStep ==
    \A r \in Procs :
        (pc[r] = "create" /\ pc'[r] = "mail_old") =>
            \A m \in matches' \ matches : \A n \in loaded[r] :
                Stored(matches, n) => OfferIds(m) \cap OfferIds(n) = {}

C20_SecondMatchByOtherRun == [][C20_CreateStep]_vars

\* Two stored matches refer to one offer, and two suggestions, one of each
\* match, have gone to its owner.
C20_Witness ==
    \E m \in matches : \E n \in matches : \E o \in offers :
        /\ m.secret # n.secret
        /\ o.id \in OfferIds(m) \cap OfferIds(n)
        /\ \E mail \in Suggestions(m) : mail.to = {o.email}
        /\ \E mail \in Suggestions(n) : mail.to = {o.email}

====
